---- MODULE Spec2Model ----
(***************************************************************************)
(* FiscalizaGov: the DOU ingestion, parsing, filtering, scoring and        *)
(* ranking pipeline of fiscalizagov.py (Streamlit app) and                 *)
(* notificar_fiscalizagov.py (scheduled notifier).                         *)
(*                                                                         *)
(* Python strings are sequences of one-character strings, so that lower(), *)
(* strip(), whitespace collapsing and substring search are computed.       *)
(* DataFrame column names lose their accents: Titulo, Orgao, Ementa,       *)
(* Secao stand for "Título", "Órgão", "Ementa/Resumo", "Seção"; the        *)
(* notifier's lower-case keys (titulo, orgao, ementa, ...) map to the same *)
(* fields.  A DataFrame is a sequence of rows, each carrying its index     *)
(* label ix.                                                               *)
(***************************************************************************)
EXTENDS Integers, Sequences, FiniteSets, TLC

VARIABLES
    prog,         \* the program running: "app" (fiscalizagov.py) or "notif" (notificar_fiscalizagov.py)
    pc,           \* where the run is: "idle", "fetch", "collected", "shown", "exited", "crashed"
    clock,        \* the time in seconds
    ticks,        \* how many times the clock has advanced
    calls,        \* how many runs have started
    cache,        \* st.cache_data: key <<data, secoes>> -> entry
    data_ref,     \* the date of the run
    secoes,       \* the section list of the run
    notif_terms,  \* the notifier's keyword list
    idx,          \* position of the collector loop in secoes (1-based)
    all_items,    \* the collector's accumulator
    log,          \* the requests and sleeps of the current collector run
    served,       \* how the last dou_coletar call was answered: "hit", "miss"
    df_dou,       \* the frame the collector returned
    df_dou_f,     \* the frame after the filter
    df_dou_rank,  \* the frame after the ranking
    err,          \* the exception that ended the program, "none" if none
    arg_df,       \* pure-function specifications: the DataFrame argument
    arg_termos,   \* pure-function specifications: the list-of-terms argument
    arg_payload,  \* pure-function specifications: the decoded payload argument
    op,           \* pure-function specifications: the function applied ("none" before)
    ret           \* pure-function specifications: the value returned

fvars == <<arg_df, arg_termos, arg_payload, op, ret>>

(***************************************************************************)
(* Bounds of the model                                                     *)
(***************************************************************************)
MaxRows == 3
MaxTermos == 2
MaxCalls == 2
MaxTicks == 2

(***************************************************************************)
(* Strings                                                                 *)
(***************************************************************************)
UpperCase ==
    <<"A", "B", "C", "D", "E", "F", "G", "H", "I", "J", "K", "L", "M", "N", "O", "P", "Q",
      "R", "S", "T", "U", "V", "W", "X", "Y", "Z", "Á", "É", "Í", "Ó", "Ú", "Ã", "Õ", "Ç">>
LowerCase ==
    <<"a", "b", "c", "d", "e", "f", "g", "h", "i", "j", "k", "l", "m", "n", "o", "p", "q",
      "r", "s", "t", "u", "v", "w", "x", "y", "z", "á", "é", "í", "ó", "ú", "ã", "õ", "ç">>

\* the characters \s matches and str.strip() removes, among those the model uses
Whitespace == {" ", "\t", "\n", "\r"}

\* the case tables as functions of the character
LowerOf == [c \in {UpperCase[i] : i \in 1..Len(UpperCase)} |->
               LowerCase[CHOOSE i \in 1..Len(UpperCase) : UpperCase[i] = c]]
UpperOf == [c \in {LowerCase[i] : i \in 1..Len(LowerCase)} |->
               UpperCase[CHOOSE i \in 1..Len(LowerCase) : LowerCase[i] = c]]

LowerChar(c) == IF c \in DOMAIN LowerOf THEN LowerOf[c] ELSE c

UpperChar(c) == IF c \in DOMAIN UpperOf THEN UpperOf[c] ELSE c

\* str.lower()
lower(s) == [i \in 1..Len(s) |-> LowerChar(s[i])]

\* str.upper()
upper(s) == [i \in 1..Len(s) |-> UpperChar(s[i])]

RECURSIVE lstrip(_)
lstrip(s) == IF s # <<>> /\ Head(s) \in Whitespace THEN lstrip(Tail(s)) ELSE s

RECURSIVE rstrip(_)
rstrip(s) ==
    IF s # <<>> /\ s[Len(s)] \in Whitespace THEN rstrip(SubSeq(s, 1, Len(s) - 1)) ELSE s

\* str.strip()
strip(s) == rstrip(lstrip(s))

\* re.sub(r"\s+", " ", s): every maximal run of whitespace becomes one space
RECURSIVE re_sub_ws(_)
re_sub_ws(s) ==
    IF s = <<>> THEN <<>>
    ELSE IF Head(s) \in Whitespace
         THEN <<" ">> \o re_sub_ws(lstrip(s))
         ELSE <<Head(s)>> \o re_sub_ws(Tail(s))

\* normalize_text on a str
normalize_str(s) == re_sub_ws(strip(s))

\* Python's  t in s  for strings
Contains(t, s) ==
    \E i \in 1..(Len(s) - Len(t) + 1) : \A j \in 1..Len(t) : s[i + j - 1] = t[j]

\* the term used as a pattern without escaping: its characters keep their regex meaning
re_escape_none(t) == [i \in 1..Len(t) |-> [lit |-> FALSE, c |-> t[i]]]

\* re.escape(t): every character of t becomes a literal of the pattern
re_escape(t) == [i \in 1..Len(t) |-> [lit |-> TRUE, c |-> t[i]]]

\* re.search(pattern, s) is not None, for patterns of literals and of the
\* metacharacter "." (any character but a newline)
PatMatches(p, c) == IF p.lit \/ p.c # "." THEN p.c = c ELSE c # "\n"

str_contains(pat, s) ==
    \E i \in 1..(Len(s) - Len(pat) + 1) : \A j \in 1..Len(pat) : PatMatches(pat[j], s[i + j - 1])

\* sep.join(parts)
RECURSIVE join(_, _)
join(sep, parts) ==
    IF parts = <<>> THEN <<>>
    ELSE IF Len(parts) = 1 THEN parts[1]
    ELSE parts[1] \o sep \o join(sep, Tail(parts))

\* code points of the characters of date strings
Ord(c) ==
    CASE c = "-" -> 45 [] c = "/" -> 47
      [] c = "0" -> 48 [] c = "1" -> 49 [] c = "2" -> 50 [] c = "3" -> 51 [] c = "4" -> 52
      [] c = "5" -> 53 [] c = "6" -> 54 [] c = "7" -> 55 [] c = "8" -> 56 [] c = "9" -> 57

\* Python's  a > b  for strings: lexicographic on code points
RECURSIVE StrGreater(_, _)
StrGreater(a, b) ==
    IF a = <<>> THEN FALSE
    ELSE IF b = <<>> THEN TRUE
    ELSE IF Head(a) # Head(b) THEN Ord(Head(a)) > Ord(Head(b))
    ELSE StrGreater(Tail(a), Tail(b))

(***************************************************************************)
(* score_dou_row                                                           *)
(***************************************************************************)
k_imposto == <<"i", "m", "p", "o", "s", "t", "o">>
k_tribut == <<"t", "r", "i", "b", "u", "t">>
k_contribui == <<"c", "o", "n", "t", "r", "i", "b", "u", "i">>
k_taxa == <<"t", "a", "x", "a">>
k_beneficio == <<"b", "e", "n", "e", "f", "í", "c", "i", "o">>
k_programa == <<"p", "r", "o", "g", "r", "a", "m", "a">>
k_fica_instituido ==
    <<"f", "i", "c", "a", " ", "i", "n", "s", "t", "i", "t", "u", "í", "d", "o">>
k_fica_criado == <<"f", "i", "c", "a", " ", "c", "r", "i", "a", "d", "o">>
k_regulamenta == <<"r", "e", "g", "u", "l", "a", "m", "e", "n", "t", "a">>
k_dispoe_sobre == <<"d", "i", "s", "p", "õ", "e", " ", "s", "o", "b", "r", "e">>
k_autoriza == <<"a", "u", "t", "o", "r", "i", "z", "a">>
k_estabelece == <<"e", "s", "t", "a", "b", "e", "l", "e", "c", "e">>
k_prorroga == <<"p", "r", "o", "r", "r", "o", "g", "a">>
k_excepcional == <<"e", "x", "c", "e", "p", "c", "i", "o", "n", "a", "l">>
k_em_carater == <<"e", "m", " ", "c", "a", "r", "á", "t", "e", "r">>

\* the trigger table, in declaration order
gatilhos ==
    << [k |-> k_imposto, pts |-> 25], [k |-> k_tribut, pts |-> 25],
       [k |-> k_contribui, pts |-> 18], [k |-> k_taxa, pts |-> 18],
       [k |-> k_beneficio, pts |-> 18], [k |-> k_programa, pts |-> 12],
       [k |-> k_fica_instituido, pts |-> 22], [k |-> k_fica_criado, pts |-> 22],
       [k |-> k_regulamenta, pts |-> 18], [k |-> k_dispoe_sobre, pts |-> 12],
       [k |-> k_autoriza, pts |-> 15], [k |-> k_estabelece, pts |-> 10],
       [k |-> k_prorroga, pts |-> 8], [k |-> k_excepcional, pts |-> 10],
       [k |-> k_em_carater, pts |-> 10] >>

match_prefix == <<"m", "a", "t", "c", "h", ":">>
sep_motivos == <<",", " ">>

Min(a, b) == IF a < b THEN a ELSE b
Max(a, b) == IF a > b THEN a ELSE b

\* texto = f"{Título} {Ementa/Resumo} {Órgão}".lower()
texto_of(row) == lower(row.Titulo \o <<" ">> \o row.Ementa \o <<" ">> \o row.Orgao)

\* for k, pts in gatilhos.items(): from entry i on, with the running state st
RECURSIVE loop_gatilhos(_, _, _)
loop_gatilhos(texto, i, st) ==
    IF i > Len(gatilhos) THEN st
    ELSE loop_gatilhos(texto, i + 1,
            IF Contains(gatilhos[i].k, texto)
            THEN [score |-> st.score + gatilhos[i].pts,
                  motivos |-> Append(st.motivos, gatilhos[i].k)]
            ELSE st)

\* for t in termos_alerta
RECURSIVE loop_alerta(_, _, _)
loop_alerta(texto, termos, st) ==
    IF termos = <<>> THEN st
    ELSE loop_alerta(texto, Tail(termos),
            IF Head(termos) # <<>> /\ Contains(lower(Head(termos)), texto)
            THEN [score |-> st.score + 12,
                  motivos |-> Append(st.motivos, match_prefix \o lower(Head(termos)))]
            ELSE st)

\* the score left unclamped
clamp_none(score) == score

\* score = max(0, min(100, score))
clamp_score(score) == Max(0, Min(100, score))

\* the reasons left untruncated
first8_all(motivos) == motivos

\* motivos[:8]
first8(motivos) == SubSeq(motivos, 1, Min(8, Len(motivos)))

score_dou_row(row, termos_alerta) ==
    LET texto == texto_of(row)
        st == loop_alerta(texto, termos_alerta,
                  loop_gatilhos(texto, 1, [score |-> 10, motivos |-> <<>>]))
    IN  [score |-> clamp_score(st.score), motivos |-> first8(st.motivos)]

(***************************************************************************)
(* dou_filtrar / filter_terms                                              *)
(***************************************************************************)
\* [t.strip().lower() for t in termos if t.strip()]
RECURSIVE clean_termos(_)
clean_termos(termos) ==
    IF termos = <<>> THEN <<>>
    ELSE IF strip(Head(termos)) # <<>>
         THEN <<lower(strip(Head(termos)))>> \o clean_termos(Tail(termos))
         ELSE clean_termos(Tail(termos))

\* (Título + " " + Ementa/Resumo + " " + Órgão).str.lower(), for one row
blob_of(row) == lower(row.Titulo \o <<" ">> \o row.Ementa \o <<" ">> \o row.Orgao)

\* mask = False; for t in termos: mask = mask | blob.str.contains(re.escape(t))
RECURSIVE mask_of(_, _, _)
mask_of(blob, termos, mask) ==
    IF termos = <<>> THEN mask
    ELSE mask_of(blob, Tail(termos), mask \/ str_contains(re_escape(Head(termos)), blob))

\* df[mask]: the rows whose mask is set, in order, index labels kept
RECURSIVE select_rows(_, _)
select_rows(df, termos) ==
    IF df = <<>> THEN <<>>
    ELSE (IF mask_of(blob_of(Head(df)), termos, FALSE) THEN <<Head(df)>> ELSE <<>>)
         \o select_rows(Tail(df), termos)

dou_filtrar(df, termos) ==
    IF df = <<>> THEN df
    ELSE IF termos = <<>> THEN df
    ELSE LET ts == clean_termos(termos)
         IN  IF ts = <<>> THEN df ELSE select_rows(df, ts)

\* notificar_fiscalizagov.py: the same filter under another name
filter_terms(df, terms) ==
    IF df = <<>> \/ terms = <<>> THEN df
    ELSE LET ts == clean_termos(terms)
         IN  IF ts = <<>> THEN df ELSE select_rows(df, ts)

(***************************************************************************)
(* dou_rankear                                                             *)
(***************************************************************************)
\* a sorts strictly before b under sort_values(["Score", "Data"], ascending=[False, False])
sorts_before(a, b) ==
    \/ a.Score > b.Score
    \/ a.Score = b.Score /\ StrGreater(a.Data, b.Data)

\* an unstable sort: a row goes before the rows already placed that tie with it
RECURSIVE insert_row_unstable(_, _)
insert_row_unstable(sorted, r) ==
    IF sorted = <<>> THEN <<r>>
    ELSE IF ~sorts_before(Head(sorted), r) THEN <<r>> \o sorted
    ELSE <<Head(sorted)>> \o insert_row_unstable(Tail(sorted), r)

\* DataFrame.sort_values on two keys is a stable sort (lexsort): a row goes
\* after every row already placed that it does not sort strictly before
RECURSIVE insert_row(_, _)
insert_row(sorted, r) ==
    IF sorted = <<>> THEN <<r>>
    ELSE IF sorts_before(r, Head(sorted)) THEN <<r>> \o sorted
    ELSE <<Head(sorted)>> \o insert_row(Tail(sorted), r)

RECURSIVE sort_values(_, _)
sort_values(rows, sorted) ==
    IF rows = <<>> THEN sorted
    ELSE sort_values(Tail(rows), insert_row(sorted, Head(rows)))

\* out["Score"] = scores; out["Motivos"] = motivos_list
with_score(row, termos_alerta) ==
    LET sm == score_dou_row(row, termos_alerta)
    IN  [ix |-> row.ix, Score |-> sm.score, Motivos |-> join(sep_motivos, sm.motivos),
         Fonte |-> row.Fonte, Data |-> row.Data, Secao |-> row.Secao, Orgao |-> row.Orgao,
         Titulo |-> row.Titulo, Ementa |-> row.Ementa, Link |-> row.Link]

dou_rankear(df, termos_alerta) ==
    IF df = <<>> THEN df
    ELSE sort_values([i \in 1..Len(df) |-> with_score(df[i], termos_alerta)], <<>>)

(***************************************************************************)
(* JSON documents                                                          *)
(*                                                                         *)
(* A decoded JSON value is a record: t is its Python type ("str", "num",   *)
(* "null", "list", "dict"), s the characters of a str, n the value of an   *)
(* int, l the elements of a list, d the <<key, value>> pairs of a dict in  *)
(* insertion order (keys are distinct).                                    *)
(***************************************************************************)
JStr(s) == [t |-> "str", s |-> s, n |-> 0, l |-> <<>>, d |-> <<>>]
JNum(n) == [t |-> "num", s |-> <<>>, n |-> n, l |-> <<>>, d |-> <<>>]
JNull == [t |-> "null", s |-> <<>>, n |-> 0, l |-> <<>>, d |-> <<>>]
JList(l) == [t |-> "list", s |-> <<>>, n |-> 0, l |-> l, d |-> <<>>]
JDict(d) == [t |-> "dict", s |-> <<>>, n |-> 0, l |-> <<>>, d |-> d]

\* dict.get(key): the value under key, None when the key is absent
RECURSIVE get(_, _)
get(d, key) ==
    IF d = <<>> THEN JNull
    ELSE IF d[1][1] = key THEN d[1][2]
    ELSE get(Tail(d), key)

\* bool(v)
truthy(v) ==
    CASE v.t = "str" -> v.s # <<>>
      [] v.t = "num" -> v.n # 0
      [] v.t = "null" -> FALSE
      [] v.t = "list" -> v.l # <<>>
      [] v.t = "dict" -> v.d # <<>>

\* a if a is not None else b
py_or_present(a, b) == IF a.t # "null" THEN a ELSE b

\* a or b
py_or(a, b) == IF truthy(a) THEN a ELSE b

DigitChars == <<"0", "1", "2", "3", "4", "5", "6", "7", "8", "9">>

\* str(n) for an int n >= 0
RECURSIVE str_int(_)
str_int(n) ==
    IF n < 10 THEN <<DigitChars[n + 1]>>
    ELSE str_int(n \div 10) \o <<DigitChars[(n % 10) + 1]>>

s_None == <<"N", "o", "n", "e">>

\* str(v), for the scalar values
py_str(v) ==
    CASE v.t = "str" -> v.s
      [] v.t = "num" -> str_int(v.n)
      [] v.t = "null" -> s_None

\* normalize_text(s)
normalize_text(v) == IF v.t = "null" THEN <<>> ELSE normalize_str(py_str(v))

(***************************************************************************)
(* _dou_parse_payload                                                      *)
(***************************************************************************)
known_keys ==
    <<"jsonArray", "itens", "items", "data", "conteudo", "materias", "publicacoes", "publicacao">>

\* Heurística 1: the lists under the known keys, from key i on
RECURSIVE scan_known(_, _)
scan_known(payload, i) ==
    IF i > Len(known_keys) THEN <<>>
    ELSE LET v == get(payload.d, known_keys[i])
         IN  (IF v.t = "list" THEN <<v.l>> ELSE <<>>) \o scan_known(payload, i + 1)

\* for kk, vv in v.items(): if isinstance(vv, list)
RECURSIVE lists_in(_)
lists_in(pairs) ==
    IF pairs = <<>> THEN <<>>
    ELSE (IF pairs[1][2].t = "list" THEN <<pairs[1][2].l>> ELSE <<>>) \o lists_in(Tail(pairs))

\* Heurística 2: for k, v in payload.items(): if isinstance(v, dict)
RECURSIVE scan_deep(_)
scan_deep(pairs) ==
    IF pairs = <<>> THEN <<>>
    ELSE (IF pairs[1][2].t = "dict" THEN lists_in(pairs[1][2].d) ELSE <<>>)
         \o scan_deep(Tail(pairs))

\* both heuristics applied whatever the first one found
candidate_lists_both(payload) == scan_known(payload, 1) \o scan_deep(payload.d)

candidate_lists(payload) ==
    LET c1 == scan_known(payload, 1)
    IN  IF c1 = <<>> THEN scan_deep(payload.d) ELSE c1

link_prefix ==
    <<"h", "t", "t", "p", "s", ":", "/", "/", "w", "w", "w", ".", "i", "n", ".", "g", "o", "v",
    ".", "b", "r", "/", "w", "e", "b", "/", "d", "o", "u", "/", "-", "/">>

\* raw.get(a) or raw.get(b) or ...  over the alias chain
RECURSIVE or_chain(_, _)
or_chain(raw, chain) ==
    IF Len(chain) = 1 THEN get(raw.d, chain[1])
    ELSE py_or(get(raw.d, chain[1]), or_chain(raw, Tail(chain)))

titulo_chain == <<"title", "titulo", "tituloMateria", "nome">>
ementa_chain == <<"ementa", "summary", "resumo", "descricao", "texto">>
orgao_chain == <<"orgao", "orgaoPessoa", "orgaoPublicador", "hierarquia">>
link_chain == <<"url", "link", "href">>
id_chain == <<"id", "identificador", "idMateria", "idPublicacao">>

\* the link synthesized whenever an identifier is found, a direct link or not
link_of_id_first(raw) ==
    LET link == py_or(or_chain(raw, link_chain), JStr(<<>>))
        possible_id == or_chain(raw, id_chain)
    IN  IF truthy(possible_id)
        THEN JStr(link_prefix \o py_str(possible_id))
        ELSE link

\* link = raw.get("url") or raw.get("link") or raw.get("href") or ""
\* if not link: possible_id = ...; if possible_id: link = f"...{possible_id}"
link_of(raw) ==
    LET link == py_or(or_chain(raw, link_chain), JStr(<<>>))
        possible_id == or_chain(raw, id_chain)
    IN  IF ~truthy(link) /\ truthy(possible_id)
        THEN JStr(link_prefix \o py_str(possible_id))
        ELSE link

\* the record appended for one raw element
item_of(raw, data_str, secao) ==
    [Data |-> data_str, Secao |-> upper(secao),
     Titulo |-> normalize_text(or_chain(raw, titulo_chain)),
     Orgao |-> normalize_text(or_chain(raw, orgao_chain)),
     Ementa |-> normalize_text(or_chain(raw, ementa_chain)),
     Link |-> link_of(raw)]

\* x.get("Título") or x.get("Ementa/Resumo") or x.get("Link")
item_kept(x) == x.Titulo # <<>> \/ x.Ementa # <<>> \/ truthy(x.Link)

\* for raw in lst: if not isinstance(raw, dict): continue; itens.append({...})
RECURSIVE items_of_list(_, _, _)
items_of_list(lst, data_str, secao) ==
    IF lst = <<>> THEN <<>>
    ELSE (IF Head(lst).t = "dict" THEN <<item_of(Head(lst), data_str, secao)>> ELSE <<>>)
         \o items_of_list(Tail(lst), data_str, secao)

\* for lst in candidate_lists
RECURSIVE items_of_lists(_, _, _)
items_of_lists(lsts, data_str, secao) ==
    IF lsts = <<>> THEN <<>>
    ELSE items_of_list(Head(lsts), data_str, secao)
         \o items_of_lists(Tail(lsts), data_str, secao)

\* fiscalizagov.py: every record is appended, the empty ones are removed at the end
dou_parse_payload(payload, data_str, secao) ==
    SelectSeq(items_of_lists(candidate_lists(payload), data_str, secao), item_kept)

\* notificar_fiscalizagov.py: a record is appended only if titulo or ementa or link
RECURSIVE kept_of_list(_, _, _)
kept_of_list(lst, data_str, secao) ==
    IF lst = <<>> THEN <<>>
    ELSE (IF Head(lst).t = "dict" /\ item_kept(item_of(Head(lst), data_str, secao))
          THEN <<item_of(Head(lst), data_str, secao)>> ELSE <<>>)
         \o kept_of_list(Tail(lst), data_str, secao)

RECURSIVE kept_of_lists(_, _, _)
kept_of_lists(lsts, data_str, secao) ==
    IF lsts = <<>> THEN <<>>
    ELSE kept_of_list(Head(lsts), data_str, secao)
         \o kept_of_lists(Tail(lsts), data_str, secao)

notif_dou_parse_payload(payload, data_str, secao) ==
    kept_of_lists(candidate_lists(payload), data_str, secao)

s_DOU == <<"D", "O", "U">>
s_DO1 == <<"D", "O", "1">>
s_do1 == <<"d", "o", "1">>
s_do2 == <<"d", "o", "2">>
s_do3 == <<"d", "o", "3">>

(***************************************************************************)
(* Dates                                                                   *)
(***************************************************************************)
\* str(n) padded with zeros on the left to w characters: %Y, %m, %d
RECURSIVE zero_pad(_, _)
zero_pad(s, w) == IF Len(s) >= w THEN s ELSE zero_pad(<<"0">> \o s, w)

\* date.strftime("%Y-%m-%d")
strftime_iso(date) ==
    zero_pad(str_int(date.y), 4) \o <<"-">> \o zero_pad(str_int(date.m), 2)
        \o <<"-">> \o zero_pad(str_int(date.d), 2)

\* date.strftime("%d/%m/%Y")
strftime_br(date) ==
    zero_pad(str_int(date.d), 2) \o <<"/">> \o zero_pad(str_int(date.m), 2)
        \o <<"/">> \o zero_pad(str_int(date.y), 4)

DigitVal(c) == (CHOOSE i \in 1..10 : DigitChars[i] = c) - 1

\* int(s) for a string of digits
RECURSIVE int_of(_)
int_of(s) ==
    IF s = <<>> THEN 0 ELSE 10 * int_of(SubSeq(s, 1, Len(s) - 1)) + DigitVal(s[Len(s)])

\* pd.to_datetime(s) for s in the form YYYY-MM-DD
to_datetime(s) ==
    [y |-> int_of(SubSeq(s, 1, 4)), m |-> int_of(SubSeq(s, 6, 7)), d |-> int_of(SubSeq(s, 9, 10))]

(***************************************************************************)
(* One request of the collector loop                                       *)
(*                                                                         *)
(* A response of the upstream: exc is the exception requests.get raises    *)
(* ("none" when it returns), status the HTTP status, json the outcome of   *)
(* r.json(), text the body consulted when r.json() fails, loads the        *)
(* outcome of json.loads on the stripped text.                             *)
(***************************************************************************)
\* txt = r.text.strip(); txt.startswith("{") and txt.endswith("}")
looks_like_object(text) ==
    LET txt == strip(text) IN txt # <<>> /\ txt[1] = "{" /\ txt[Len(txt)] = "}"

\* except requests.RequestException: only transport errors are caught
handler_catches_requests_only(exc) == exc = "RequestException"

\* except Exception: every exception of the try body is caught
handler_catches(exc) == exc \in {"RequestException", "JSONDecodeError"}

\* the try body of one iteration: exc is the exception it raises, skip is
\* TRUE when it leaves by  continue, payload is the decoded document
try_body(resp) ==
    IF resp.exc # "none" THEN [exc |-> resp.exc, skip |-> FALSE, payload |-> JNull]
    ELSE IF resp.status # 200 THEN [exc |-> "none", skip |-> TRUE, payload |-> JNull]
    ELSE IF resp.json.ok THEN [exc |-> "none", skip |-> FALSE, payload |-> resp.json.doc]
    ELSE IF looks_like_object(resp.text)
         THEN IF resp.loads.ok
              THEN [exc |-> "none", skip |-> FALSE, payload |-> resp.loads.doc]
              ELSE [exc |-> "JSONDecodeError", skip |-> FALSE, payload |-> JNull]
         ELSE [exc |-> "none", skip |-> FALSE, payload |-> JDict(<<>>)]

\* if isinstance(payload, dict) and payload
payload_usable(payload) == payload.t = "dict" /\ truthy(payload)

(***************************************************************************)
(* dou_coletar after the loop: the frame and its final normalisation       *)
(***************************************************************************)
\* df[c].fillna("").astype(str).map(normalize_text) for the four text
\* columns; Data reformatted; Fonte added
final_row(x, i) ==
    [ix |-> i - 1, Fonte |-> s_DOU,
     Data |-> strftime_br(to_datetime(x.Data)), Secao |-> x.Secao,
     Orgao |-> normalize_str(x.Orgao), Titulo |-> normalize_str(x.Titulo),
     Ementa |-> normalize_str(x.Ementa), Link |-> normalize_str(py_str(x.Link))]

coletar_frame(items) == [i \in 1..Len(items) |-> final_row(items[i], i)]

\* notificar_fiscalizagov.py: pd.DataFrame(all_items), nothing else
collect_frame(items) ==
    [i \in 1..Len(items) |->
        [ix |-> i - 1, Data |-> items[i].Data, Secao |-> items[i].Secao,
         Orgao |-> items[i].Orgao, Titulo |-> items[i].Titulo,
         Ementa |-> items[i].Ementa, Link |-> items[i].Link]]

(***************************************************************************)
(* The cache of st.cache_data(ttl=1800) around dou_coletar                 *)
(***************************************************************************)
ttl == 1800

NoEntry == [present |-> FALSE, at |-> 0, value |-> <<>>]

\* an entry served up to and including the time-to-live
cache_fresh_closed(entry, now) == entry.present /\ now - entry.at <= ttl

\* an entry is served while its age is below the time-to-live
cache_fresh(entry, now) == entry.present /\ now - entry.at < ttl

(***************************************************************************)
(* Lists read from the environment (notificar_fiscalizagov.py main)        *)
(***************************************************************************)
\* s.split(",")
RECURSIVE split_comma(_, _)
split_comma(s, cur) ==
    IF s = <<>> THEN <<cur>>
    ELSE IF Head(s) = "," THEN <<cur>> \o split_comma(Tail(s), <<>>)
    ELSE split_comma(Tail(s), Append(cur, Head(s)))

\* [x.strip() for x in parts if x.strip()]
RECURSIVE strip_nonempty(_)
strip_nonempty(parts) ==
    IF parts = <<>> THEN <<>>
    ELSE (IF strip(Head(parts)) # <<>> THEN <<strip(Head(parts))>> ELSE <<>>)
         \o strip_nonempty(Tail(parts))

DEFAULT_SECOES_DOU == <<s_do1, s_do2, s_do3>>

k_decreto == <<"d", "e", "c", "r", "e", "t", "o">>
k_portaria == <<"p", "o", "r", "t", "a", "r", "i", "a">>
k_instrucao_normativa ==
    <<"i", "n", "s", "t", "r", "u", "ç", "ã", "o", " ", "n", "o", "r", "m", "a", "t", "i", "v",
    "a">>

\* the notifier's default terms
default_terms ==
    <<k_imposto, k_tribut, k_contribui, k_beneficio, k_programa, k_decreto, k_portaria,
      k_instrucao_normativa>>

\* secoes = [...] if secoes_env.strip() else DEFAULT_SECOES_DOU
secoes_from_env(secoes_env) ==
    IF strip(secoes_env) # <<>> THEN strip_nonempty(split_comma(secoes_env, <<>>))
    ELSE DEFAULT_SECOES_DOU

\* terms = [...] if terms_env.strip() else the default terms
terms_from_env(terms_env) ==
    IF strip(terms_env) # <<>> THEN strip_nonempty(split_comma(terms_env, <<>>))
    ELSE default_terms

(***************************************************************************)
(* Inputs of the pure-function specifications                              *)
(***************************************************************************)
t_decreto ==
    <<"D", "e", "c", "r", "e", "t", "o", " ", "i", "n", "s", "t", "i", "t", "u", "i", " ", "n",
    "o", "v", "o", " ", "I", "M", "P", "O", "S", "T", "O">>
t_imposto_ponto ==
    <<"A", "u", "m", "e", "n", "t", "a", " ", "o", " ", "i", "m", "p", "o", "s", "t", "o", ".">>
t_tributo ==
    <<"R", "e", "g", "i", "m", "e", " ", "T", "R", "I", "B", "U", "T", "Á", "R", "I", "O">>
t_portaria == <<"P", "o", "r", "t", "a", "r", "i", "a">>
t_todos ==
    <<"I", "M", "P", "O", "S", "T", "O", " ", "t", "r", "i", "b", "u", "t", " ", "c", "o", "n",
    "t", "r", "i", "b", "u", "i", " ", "T", "A", "X", "A", " ", "b", "e", "n", "e", "f", "í",
    "c", "i", "o", " ", "p", "r", "o", "g", "r", "a", "m", "a", " ", "F", "I", "C", "A", " ",
    "I", "N", "S", "T", "I", "T", "U", "Í", "D", "O", " ", "f", "i", "c", "a", " ", "c", "r",
    "i", "a", "d", "o", " ", "r", "e", "g", "u", "l", "a", "m", "e", "n", "t", "a", " ", "d",
    "i", "s", "p", "õ", "e", " ", "s", "o", "b", "r", "e", " ", "a", "u", "t", "o", "r", "i",
    "z", "a", " ", "e", "s", "t", "a", "b", "e", "l", "e", "c", "e", " ", "p", "r", "o", "r",
    "r", "o", "g", "a", " ", "e", "x", "c", "e", "p", "c", "i", "o", "n", "a", "l", " ", "e",
    "m", " ", "c", "a", "r", "á", "t", "e", "r">>
e_sete ==
    <<"i", "m", "p", "o", "s", "t", "o", " ", "t", "r", "i", "b", "u", "t", " ", "c", "o", "n",
    "t", "r", "i", "b", "u", "i", " ", "t", "a", "x", "a", " ", "p", "r", "o", "g", "r", "a",
    "m", "a", " ", "a", "u", "t", "o", "r", "i", "z", "a", " ", "p", "r", "o", "r", "r", "o",
    "g", "a">>
e_fica_em ==
    <<"F", "i", "c", "a", " ", "i", "n", "s", "t", "i", "t", "u", "í", "d", "o", " ", "o", " ",
    "P", "r", "o", "g", "r", "a", "m", "a", " ", "e", "m">>
o_carater == <<"c", "a", "r", "á", "t", "e", "r", " ", "e", "s", "p", "e", "c", "i", "a", "l">>
o_ministerio == <<"M", "i", "n", "i", "s", "t", "é", "r", "i", "o", " ", "X">>
a_IMPOSTO == <<"I", "M", "P", "O", "S", "T", "O">>
a_decreto == <<"d", "e", "c", "r", "e", "t", "o">>
a_xyz == <<"x", "y", "z">>
a_espaco == <<" ">>
a_Taxa == <<"T", "a", "x", "a">>
b_Imposto_pad == <<" ", " ", "I", "m", "p", "o", "s", "t", "o", "\t">>
b_brancos == <<" ", "\t", " ">>
b_ponto == <<"o", ".">>
b_ministerio == <<"M", "I", "N", "I", "S", "T", "É", "R", "I", "O">>
d_3101 == <<"3", "1", "/", "0", "1", "/", "2", "0", "2", "4">>
d_0102 == <<"0", "1", "/", "0", "2", "/", "2", "0", "2", "4">>

SeqsUpTo(S, n) == UNION {[1..k -> S] : k \in 0..n}

\* a row of the frame dou_coletar returns
Row(ix, data, titulo, ementa, orgao) ==
    [ix |-> ix, Fonte |-> s_DOU, Data |-> data, Secao |-> s_DO1, Orgao |-> orgao,
     Titulo |-> titulo, Ementa |-> ementa, Link |-> <<>>]

\* the frame of the given row contents, with the RangeIndex 0..n-1
Frame(cs) == [i \in 1..Len(cs) |-> Row(i - 1, cs[i][1], cs[i][2], cs[i][3], cs[i][4])]

ScoreTitulos == {<<>>, t_decreto, t_portaria, t_todos}
ScoreEmentas == {<<>>, e_sete, e_fica_em}
ScoreOrgaos == {<<>>, o_carater, o_ministerio}
AlertPool == {<<>>, a_espaco, a_IMPOSTO, a_Taxa, a_decreto, a_xyz}

FilterContents ==
    { <<d_0102, t_decreto, <<>>, o_ministerio>>,
      <<d_0102, t_imposto_ponto, <<>>, <<>> >>,
      <<d_0102, t_portaria, e_fica_em, o_carater>>,
      <<d_0102, <<>>, t_tributo, <<>> >> }
KeywordPool == {<<>>, b_brancos, b_Imposto_pad, b_ponto, b_ministerio, a_xyz}

RankContents ==
    { <<d, t, <<>>, <<>> >> : d \in {d_3101, d_0102}, t \in {t_decreto, t_tributo, t_portaria} }
RankAlertas == {<<>>, <<a_IMPOSTO>>}

(***************************************************************************)
(* Payloads                                                                *)
(***************************************************************************)
s_data_iso == <<"2", "0", "2", "4", "-", "0", "5", "-", "0", "1">>
t_scenario ==
    <<"D", "e", "c", "r", "e", "t", "o", " ", "i", "n", "s", "t", "i", "t", "u", "i", " ", "n",
    "o", "v", "o", " ", "i", "m", "p", "o", "s", "t", "o">>

\* the value a raw element holds under the i-th key of a chain, by kind
ValueOf(kind, i) ==
    CASE kind = "null" -> JNull
      [] kind = "empty" -> JStr(<<>>)
      [] kind = "blank" -> JStr(<<" ">>)
      [] kind = "zero" -> JNum(0)
      [] kind = "text" -> JStr(<<" ", DigitChars[i + 1], " ", "\t", "x", " ">>)
      [] kind = "url" -> JStr(<<"u", "/", DigitChars[i + 1]>>)
      [] kind = "num" -> JNum(12340 + i)

\* the pairs of a dict holding chain[i] |-> ValueOf(f[i], i) for the keys not "absent"
RECURSIVE PairsOf(_, _, _)
PairsOf(chain, f, i) ==
    IF i > Len(chain) THEN <<>>
    ELSE (IF f[i] = "absent" THEN <<>> ELSE << <<chain[i], ValueOf(f[i], i)>> >>)
         \o PairsOf(chain, f, i + 1)

FamElems(chain, kinds, extras) ==
    {JDict(PairsOf(chain, f, 1) \o x) : f \in [1..Len(chain) -> kinds], x \in extras}

p_url == <<"url", JStr(<<"u">>)>>
p_ementa == <<"resumo", JStr(<<"E">>)>>
\* keys that differ from an alias only by case
p_miscased == <<"Title", JStr(<<"Z">>)>>

TituloElems ==
    FamElems(titulo_chain, {"absent", "null", "empty", "zero", "text"},
             {<<p_url>>, <<p_miscased, p_url>>})
EmentaElems == FamElems(ementa_chain, {"absent", "empty", "text"}, {<<p_url>>})
OrgaoElems == FamElems(orgao_chain, {"absent", "empty", "text"}, {<<p_url>>})
LinkElems ==
    {JDict(PairsOf(link_chain, f, 1) \o PairsOf(id_chain, g, 1) \o x) :
        f \in [1..Len(link_chain) -> {"absent", "empty", "blank", "url"}],
        g \in [1..Len(id_chain) -> {"absent", "zero", "num"}],
        x \in {<<>>, <<p_ementa>>}}

\* the element of the spec's scenario A, an element with no recognised key,
\* and one whose only content is white space
e_scenario ==
    JDict(<< <<"titulo", JStr(t_scenario)>>, <<"orgao", JStr(o_ministerio)>>,
             <<"id", JNum(12345)>> >>)
e_unknown == JDict(<< <<"outro", JStr(<<"x">>)>> >>)
e_blank == JDict(<< <<"titulo", JStr(<<" ", "\t">>)>>, <<"link", JStr(<<" ">>)>> >>)

ShapeElems == {e_scenario, e_unknown, e_blank}

\* {"jsonArray": [e]}
P_known(e) == JDict(<< <<"jsonArray", JList(<<e>>)>> >>)

\* other shapes of payload around an element e
PayloadShapes(e) ==
    { JDict(<< <<"meta", JNum(1)>>,
               <<"resultado", JDict(<< <<"total", JNum(1)>>, <<"lista", JList(<<e>>)>> >>)>> >>),
      JDict(<< <<"items", JList(<<>>)>>,
               <<"resultado", JDict(<< <<"lista", JList(<<e>>)>> >>)>> >>),
      JDict(<< <<"data", JDict(<< <<"itens", JList(<<e>>)>>, <<"mais", JList(<<e_scenario>>)>> >>)>> >>),
      JDict(<< <<"itens", JList(<<e>>)>>,
               <<"jsonArray", JList(<<JStr(<<"x">>), e_scenario, JNum(1)>>)>>,
               <<"resultado", JDict(<< <<"lista", JList(<<e_scenario>>)>> >>)>> >>),
      JDict(<< <<"jsonArray", JStr(<<"x">>)>>, <<"lista", JList(<<e>>)>> >>),
      JDict(<< <<"a", JDict(<< <<"b", JDict(<< <<"c", JList(<<e>>)>> >>)>> >>)>> >>) }

ParserPayloads ==
    {P_known(e) : e \in TituloElems \cup EmentaElems \cup OrgaoElems \cup LinkElems \cup ShapeElems}
    \cup UNION {PayloadShapes(e) : e \in ShapeElems}

(***************************************************************************)
(* The upstream and the inputs of the two programs                         *)
(***************************************************************************)
body_not_json == <<"n", "o", "t", " ", "j", "s", "o", "n">>
body_bad_object == <<" ", "{", "o", "o", "p", "s", "}", " ">>
body_object ==
    <<"{", "\"", "j", "s", "o", "n", "A", "r", "r", "a", "y", "\"", ":", " ", ".", ".", ".",
    "}">>
e_autoriza ==
    <<" ", " ", "A", "u", "t", "o", "r", "i", "z", "a", " ", " ", "o", " ", "p", "r", "o", "g",
    "r", "a", "m", "a", " ">>
env_virgula == <<",">>
env_do1 == <<"d", "o", "1">>
env_do2_do1 == <<" ", "d", "o", "2", " ", ",", "d", "o", "1", ",">>
env_terms == <<" ", "I", "m", "p", "o", "s", "t", "o", " ", ",", ",", "T", "A", "X", "A">>

NoDoc == [ok |-> FALSE, doc |-> JNull]
Doc(doc) == [ok |-> TRUE, doc |-> doc]

Response(exc, status, json, text, loads) ==
    [exc |-> exc, status |-> status, json |-> json, text |-> text, loads |-> loads]

e_titled == JDict(<< <<"title", JStr(t_portaria)>>, <<"ementa", JStr(e_autoriza)>> >>)

payload_A == P_known(e_scenario)
payload_B == JDict(<< <<"jsonArray", JList(<<e_blank, e_unknown, e_titled>>)>> >>)

R_timeout == Response("RequestException", 0, NoDoc, <<>>, NoDoc)
R_500 == Response("none", 500, NoDoc, <<>>, NoDoc)
R_not_json == Response("none", 200, NoDoc, body_not_json, NoDoc)
R_bad_object == Response("none", 200, NoDoc, body_bad_object, NoDoc)
R_second_parse == Response("none", 200, NoDoc, body_object, Doc(payload_A))
R_list == Response("none", 200, Doc(JList(<<e_scenario>>)), <<>>, NoDoc)
R_empty_object == Response("none", 200, Doc(JDict(<<>>)), <<>>, NoDoc)
R_ok_A == Response("none", 200, Doc(payload_A), <<>>, NoDoc)
R_ok_B == Response("none", 200, Doc(payload_B), <<>>, NoDoc)

Responses ==
    {R_timeout, R_500, R_not_json, R_bad_object, R_second_parse, R_list, R_empty_object,
     R_ok_A, R_ok_B}

NoResponse == Response("none", 0, NoDoc, <<>>, NoDoc)

date_1 == [y |-> 2024, m |-> 5, d |-> 1]
date_2 == [y |-> 2024, m |-> 1, d |-> 31]
NoDate == [y |-> 0, m |-> 0, d |-> 0]

\* what the sidebar of the app can hold
AppDates == {date_1, date_2}
AppSecoes == {<<>>, <<s_do1>>, <<s_do2>>, <<s_do1, s_do2>>}
AppBusca == {<<>>, default_terms}
\* the default of the sidebar's alert terms
default_alerta == <<k_imposto, k_beneficio, k_regulamenta, k_fica_instituido, k_fica_criado>>
AppAlerta == {<<>>, default_alerta}

\* what the environment of the notifier can hold
EnvSecoes == {<<>>, env_virgula, env_do1, env_do2_do1}
EnvTerms == {<<>>, env_terms}

Keys == AppDates \X AppSecoes

(***************************************************************************)
(* State of the programs                                                   *)
(***************************************************************************)
mvars ==
    <<prog, pc, clock, ticks, calls, cache, data_ref, secoes, notif_terms, idx, all_items, log,
      served, df_dou, df_dou_f, df_dou_rank, err>>

vars == <<mvars, fvars>>

\* the variables of one run of the script or of main()
RunBlank ==
    /\ data_ref = NoDate
    /\ secoes = <<>>
    /\ notif_terms = <<>>
    /\ idx = 0
    /\ all_items = <<>>
    /\ log = <<>>
    /\ served = "none"
    /\ df_dou = <<>>
    /\ df_dou_f = <<>>
    /\ df_dou_rank = <<>>

FnBlank ==
    /\ arg_df = <<>>
    /\ arg_termos = <<>>
    /\ arg_payload = JNull
    /\ op = "n/a"
    /\ ret = <<>>

MainBlank ==
    /\ prog = "none"
    /\ pc = "idle"
    /\ clock = 0
    /\ ticks = 0
    /\ calls = 0
    /\ cache = [k \in Keys |-> NoEntry]
    /\ err = "none"
    /\ RunBlank

Init ==
    /\ prog \in {"app", "notif"}
    /\ pc = "idle"
    /\ clock = 0
    /\ ticks = 0
    /\ calls = 0
    /\ cache = [k \in Keys |-> NoEntry]
    /\ err = "none"
    /\ RunBlank
    /\ FnBlank

(***************************************************************************)
(* fiscalizagov.py: one run of the script                                  *)
(***************************************************************************)
\* df_dou = dou_coletar(data_ref, secoes), served from the cache
CallHit(d, s) ==
    /\ prog = "app" /\ pc = "idle" /\ calls < MaxCalls
    /\ cache_fresh(cache[<<d, s>>], clock)
    /\ calls' = calls + 1
    /\ data_ref' = d /\ secoes' = s
    /\ served' = "hit"
    /\ df_dou' = cache[<<d, s>>].value
    /\ pc' = "collected"
    /\ UNCHANGED <<prog, clock, ticks, cache, notif_terms, idx, all_items, log, df_dou_f,
                   df_dou_rank, err, fvars>>

\* df_dou = dou_coletar(data_ref, secoes), the function body is entered
CallMiss(d, s) ==
    /\ prog = "app" /\ pc = "idle" /\ calls < MaxCalls
    /\ ~cache_fresh(cache[<<d, s>>], clock)
    /\ calls' = calls + 1
    /\ data_ref' = d /\ secoes' = s
    /\ served' = "miss"
    /\ idx' = 1 /\ all_items' = <<>>
    /\ pc' = "fetch"
    /\ UNCHANGED <<prog, clock, ticks, cache, notif_terms, log, df_dou, df_dou_f, df_dou_rank,
                   err, fvars>>

\* one iteration of  for secao in secoes, in either program
FetchSecao(resp) ==
    /\ pc = "fetch" /\ idx <= Len(secoes)
    /\ LET secao == secoes[idx]
           data_str == strftime_iso(data_ref)
           r == try_body(resp)
           got == [ev |-> "get", secao |-> secao, resp |-> resp]
           slept == [ev |-> "sleep", secao |-> secao, resp |-> NoResponse]
       IN  IF r.exc # "none" /\ ~handler_catches(r.exc)
           THEN /\ err' = r.exc
                /\ pc' = "crashed"
                /\ log' = Append(log, got)
                /\ UNCHANGED <<idx, all_items>>
           ELSE IF r.exc # "none" \/ r.skip
           THEN \* continue: the sleep is not reached
                /\ idx' = idx + 1
                /\ log' = Append(log, got)
                /\ UNCHANGED <<pc, err, all_items>>
           ELSE /\ all_items' =
                      IF payload_usable(r.payload)
                      THEN all_items \o (IF prog = "app"
                                         THEN dou_parse_payload(r.payload, data_str, secao)
                                         ELSE notif_dou_parse_payload(r.payload, data_str, secao))
                      ELSE all_items
                /\ idx' = idx + 1
                /\ log' = log \o <<got, slept>>
                /\ UNCHANGED <<pc, err>>
    /\ UNCHANGED <<prog, clock, ticks, calls, cache, data_ref, secoes, notif_terms, served, df_dou,
                   df_dou_f, df_dou_rank, fvars>>

\* dou_coletar returns and only a frame with rows is stored in the cache
ColetarReturn_rows_only ==
    /\ prog = "app" /\ pc = "fetch" /\ idx > Len(secoes)
    /\ df_dou' = coletar_frame(all_items)
    /\ cache' = IF coletar_frame(all_items) = <<>> THEN cache
                ELSE [cache EXCEPT ![<<data_ref, secoes>>] =
                         [present |-> TRUE, at |-> clock, value |-> coletar_frame(all_items)]]
    /\ pc' = "collected"
    /\ UNCHANGED <<prog, clock, ticks, calls, data_ref, secoes, notif_terms, idx, all_items, log,
                   served, df_dou_f, df_dou_rank, err, fvars>>

\* dou_coletar returns: the frame is normalised, stored in the cache, returned
ColetarReturn ==
    /\ prog = "app" /\ pc = "fetch" /\ idx > Len(secoes)
    /\ df_dou' = coletar_frame(all_items)
    /\ cache' = [cache EXCEPT ![<<data_ref, secoes>>] =
                    [present |-> TRUE, at |-> clock, value |-> coletar_frame(all_items)]]
    /\ pc' = "collected"
    /\ UNCHANGED <<prog, clock, ticks, calls, data_ref, secoes, notif_terms, idx, all_items, log,
                   served, df_dou_f, df_dou_rank, err, fvars>>

\* df_dou_f = dou_filtrar(...); df_dou_rank = dou_rankear(...) if not df_dou_f.empty
FilterRank(busca, alerta) ==
    /\ prog = "app" /\ pc = "collected"
    /\ df_dou_f' = dou_filtrar(df_dou, busca)
    /\ df_dou_rank' = IF dou_filtrar(df_dou, busca) # <<>>
                      THEN dou_rankear(dou_filtrar(df_dou, busca), alerta)
                      ELSE dou_filtrar(df_dou, busca)
    /\ pc' = "shown"
    /\ UNCHANGED <<prog, clock, ticks, calls, cache, data_ref, secoes, notif_terms, idx, all_items,
                   log, served, df_dou, err, fvars>>

\* the script ends: only the cache outlives the run
ScriptEnd ==
    /\ prog = "app" /\ pc = "shown"
    /\ pc' = "idle"
    /\ data_ref' = NoDate /\ secoes' = <<>> /\ idx' = 0 /\ all_items' = <<>>
    /\ log' = <<>> /\ served' = "none"
    /\ df_dou' = <<>> /\ df_dou_f' = <<>> /\ df_dou_rank' = <<>>
    /\ UNCHANGED <<prog, clock, ticks, calls, cache, notif_terms, err, fvars>>

\* time passes between two runs of the script
Tick(dt) ==
    /\ prog = "app" /\ pc = "idle" /\ calls > 0 /\ ticks < MaxTicks
    /\ clock' = clock + dt
    /\ ticks' = ticks + 1
    /\ UNCHANGED <<prog, pc, calls, cache, data_ref, secoes, notif_terms, idx, all_items, log,
                   served, df_dou, df_dou_f, df_dou_rank, err, fvars>>

(***************************************************************************)
(* notificar_fiscalizagov.py: main()                                       *)
(***************************************************************************)
\* main() up to the call of dou_collect
NotifStart(has_token, terms_env, secoes_env) ==
    /\ prog = "notif" /\ pc = "idle" /\ calls = 0
    /\ calls' = 1
    /\ IF ~has_token
       THEN /\ err' = "SystemExit"
            /\ pc' = "exited"
            /\ UNCHANGED <<data_ref, secoes, notif_terms, idx, all_items>>
       ELSE /\ notif_terms' = terms_from_env(terms_env)
            /\ secoes' = secoes_from_env(secoes_env)
            /\ data_ref' = date_1
            /\ idx' = 1 /\ all_items' = <<>>
            /\ pc' = "fetch"
            /\ UNCHANGED err
    /\ UNCHANGED <<prog, clock, ticks, cache, log, served, df_dou, df_dou_f, df_dou_rank,
                   fvars>>

\* dou_collect returns pd.DataFrame(all_items)
CollectReturn ==
    /\ prog = "notif" /\ pc = "fetch" /\ idx > Len(secoes)
    /\ df_dou' = collect_frame(all_items)
    /\ pc' = "collected"
    /\ UNCHANGED <<prog, clock, ticks, calls, cache, data_ref, secoes, notif_terms, idx, all_items,
                   log, served, df_dou_f, df_dou_rank, err, fvars>>

\* df = filter_terms(df, terms); the message is sent; SystemExit if Telegram
\* does not answer ok
NotifSend(telegram_ok) ==
    /\ prog = "notif" /\ pc = "collected"
    /\ df_dou_f' = filter_terms(df_dou, notif_terms)
    /\ err' = IF telegram_ok THEN "none" ELSE "SystemExit"
    /\ pc' = "exited"
    /\ UNCHANGED <<prog, clock, ticks, calls, cache, data_ref, secoes, notif_terms, idx, all_items,
                   log, served, df_dou, df_dou_rank, fvars>>

\* Spec: one run of either program from a cold start, against an upstream
\* that may answer in every way
Next ==
    \/ \E d \in AppDates, s \in AppSecoes : CallMiss(d, s)
    \/ \E resp \in Responses : FetchSecao(resp)
    \/ ColetarReturn
    \/ \E busca \in AppBusca, alerta \in AppAlerta : FilterRank(busca, alerta)
    \/ \E has_token \in BOOLEAN, terms_env \in EnvTerms, secoes_env \in EnvSecoes :
          NotifStart(has_token, terms_env, secoes_env)
    \/ CollectReturn
    \/ \E telegram_ok \in BOOLEAN : NotifSend(telegram_ok)

Spec == Init /\ [][Next]_vars

\* SpecCache: the app over several runs of the script, time passing between
\* them, against an upstream that answers 500 or a payload
CacheResponses == {R_500, R_ok_A}
CacheSecoes == {<<s_do1>>, <<s_do1, s_do2>>}

InitCache ==
    /\ prog = "app"
    /\ pc = "idle"
    /\ clock = 0
    /\ ticks = 0
    /\ calls = 0
    /\ cache = [k \in Keys |-> NoEntry]
    /\ err = "none"
    /\ RunBlank
    /\ FnBlank

NextCache ==
    \/ \E d \in AppDates, s \in CacheSecoes : CallHit(d, s)
    \/ \E d \in AppDates, s \in CacheSecoes : CallMiss(d, s)
    \/ \E resp \in CacheResponses : FetchSecao(resp)
    \/ ColetarReturn
    \/ \E busca \in {default_terms}, alerta \in {default_alerta} : FilterRank(busca, alerta)
    \/ ScriptEnd
    \/ \E dt \in {1, ttl - 1} : Tick(dt)

SpecCache == InitCache /\ [][NextCache]_vars

(***************************************************************************)
(* Specifications of the pure functions: the input is drawn by the initial *)
(* state and one action applies the function                               *)
(***************************************************************************)
FnUnchanged == UNCHANGED <<arg_df, arg_termos, arg_payload, mvars>>

(***************************************************************************)
(* SpecScore: score_dou_row on one row and a list of alert terms           *)
(***************************************************************************)
InitScore ==
    /\ arg_df \in {Frame(<< <<d_0102, t, e, o>> >>) :
                      t \in ScoreTitulos, e \in ScoreEmentas, o \in ScoreOrgaos}
    /\ arg_termos \in SeqsUpTo(AlertPool, MaxTermos)
    /\ arg_payload = JNull
    /\ op = "none"
    /\ ret = <<>>
    /\ MainBlank

ScoreRow ==
    /\ op = "none"
    /\ ret' = score_dou_row(arg_df[1], arg_termos)
    /\ op' = "score_dou_row"
    /\ FnUnchanged

NextScore == ScoreRow

SpecScore == InitScore /\ [][NextScore]_vars

(***************************************************************************)
(* SpecFilter: dou_filtrar and filter_terms on a frame and a keyword list  *)
(***************************************************************************)
InitFilter ==
    /\ arg_df \in {Frame(cs) : cs \in SeqsUpTo(FilterContents, MaxRows)}
    /\ arg_termos \in SeqsUpTo(KeywordPool, MaxTermos)
    /\ arg_payload = JNull
    /\ op = "none"
    /\ ret = <<>>
    /\ MainBlank

Filtrar ==
    /\ op = "none"
    /\ ret' = dou_filtrar(arg_df, arg_termos)
    /\ op' = "dou_filtrar"
    /\ FnUnchanged

FilterTerms ==
    /\ op = "none"
    /\ ret' = filter_terms(arg_df, arg_termos)
    /\ op' = "filter_terms"
    /\ FnUnchanged

NextFilter == Filtrar \/ FilterTerms

SpecFilter == InitFilter /\ [][NextFilter]_vars

(***************************************************************************)
(* SpecRank: dou_rankear on a frame and a list of alert terms              *)
(***************************************************************************)
InitRank ==
    /\ arg_df \in {Frame(cs) : cs \in SeqsUpTo(RankContents, MaxRows)}
    /\ arg_termos \in RankAlertas
    /\ arg_payload = JNull
    /\ op = "none"
    /\ ret = <<>>
    /\ MainBlank

Rankear ==
    /\ op = "none"
    /\ ret' = dou_rankear(arg_df, arg_termos)
    /\ op' = "dou_rankear"
    /\ FnUnchanged

NextRank == Rankear

SpecRank == InitRank /\ [][NextRank]_vars

(***************************************************************************)
(* SpecParser: the two _dou_parse_payload on one decoded payload           *)
(***************************************************************************)
InitParser ==
    /\ arg_payload \in ParserPayloads
    /\ arg_df = <<>>
    /\ arg_termos = <<>>
    /\ op = "none"
    /\ ret = <<>>
    /\ MainBlank

ParsePayload ==
    /\ op = "none"
    /\ ret' = dou_parse_payload(arg_payload, s_data_iso, s_do1)
    /\ op' = "_dou_parse_payload"
    /\ FnUnchanged

NotifParsePayload ==
    /\ op = "none"
    /\ ret' = notif_dou_parse_payload(arg_payload, s_data_iso, s_do1)
    /\ op' = "notif._dou_parse_payload"
    /\ FnUnchanged

NextParser == ParsePayload \/ NotifParsePayload

SpecParser == InitParser /\ [][NextParser]_vars

(***************************************************************************)
(* Claims about score_dou_row                                              *)
(***************************************************************************)
\* the lower-cased text "title summary agency" of the scored row
ItemText == lower(arg_df[1].Titulo \o <<" ">> \o arg_df[1].Ementa \o <<" ">> \o arg_df[1].Orgao)

MatchedIn(txt) == {i \in 1..Len(gatilhos) : Contains(gatilhos[i].k, txt)}
MatchedGatilhos == MatchedIn(ItemText)

AlertasIn(txt) ==
    {j \in 1..Len(arg_termos) :
        arg_termos[j] # <<>> /\ Contains(lower(arg_termos[j]), txt)}
MatchedAlertas == AlertasIn(ItemText)

RECURSIVE SumPts(_)
SumPts(S) ==
    IF S = {} THEN 0
    ELSE LET i == CHOOSE x \in S : TRUE IN gatilhos[i].pts + SumPts(S \ {i})

\* C4: the score is an integer in [0, 100] equal to min(100, 10 + the points of
\* every trigger-table term found in the lower-cased text + 12 for each non-empty
\* alert term whose lower-cased form is found in it).
Thm_C4 ==
    op = "score_dou_row" =>
        /\ ret.score \in 0..100
        /\ ret.score = Min(100, 10 + SumPts(MatchedGatilhos) + 12 * Cardinality(MatchedAlertas))

\* all fifteen trigger terms match and the score is capped at 100
Wit_C4 ==
    /\ op = "score_dou_row"
    /\ Cardinality(MatchedGatilhos) = 15
    /\ 10 + SumPts(MatchedGatilhos) > 100
    /\ ret.score = 100

\* the fired rules in evaluation order: table terms, then labelled alert terms
FiredRules ==
    LET txt == ItemText
        ks == [i \in 1..Len(gatilhos) |-> gatilhos[i].k]
        hitk(k) == Contains(k, txt)
        hita(t) == t # <<>> /\ Contains(lower(t), txt)
        as == SelectSeq(arg_termos, hita)
    IN  SelectSeq(ks, hitk) \o [j \in 1..Len(as) |-> match_prefix \o lower(as[j])]

\* C8: the reasons list has at most 8 entries and is the first 8 of the fired
\* rules in evaluation order (table terms in declaration order, then alert
\* terms in caller order labelled match:<term>).
Thm_C8 ==
    op = "score_dou_row" =>
        /\ Len(ret.motivos) <= 8
        /\ ret.motivos = SubSeq(FiredRules, 1, Min(8, Len(FiredRules)))

\* more than 8 rules fired, fewer than 8 of them table terms: the list is cut
\* inside the alert terms
Wit_C8 ==
    /\ op = "score_dou_row"
    /\ Len(FiredRules) > 8
    /\ Cardinality(MatchedGatilhos) < 8
    /\ Len(ret.motivos) = 8
    /\ SubSeq(ret.motivos[8], 1, 6) = match_prefix

(***************************************************************************)
(* Claims about dou_filtrar / filter_terms                                 *)
(***************************************************************************)
\* the keywords that count: trimmed, lower-cased, non-empty
Keywords ==
    {lower(strip(arg_termos[j])) : j \in {i \in 1..Len(arg_termos) : strip(arg_termos[i]) # <<>>}}

RowMatches(row) ==
    \E kw \in Keywords :
        Contains(kw, lower(row.Titulo \o <<" ">> \o row.Ementa \o <<" ">> \o row.Orgao))

\* C5: the filter returns exactly the rows whose lower-cased text contains one
\* of the trimmed, lower-cased, non-empty keywords literally, in input order;
\* with no such keyword it returns its input unchanged.
Thm_C5 ==
    op \in {"dou_filtrar", "filter_terms"} =>
        ret = IF Keywords = {} THEN arg_df ELSE SelectSeq(arg_df, RowMatches)

\* a padded mixed-case keyword keeps some rows and drops others, and a keyword
\* holding a regex metacharacter selects nothing it does not literally occur in
Wit_C5 ==
    /\ op = "dou_filtrar"
    /\ arg_termos = <<b_Imposto_pad, b_ponto>>
    /\ Len(arg_df) = 3
    /\ Len(ret) = 2
    /\ \E i \in 1..Len(arg_df) : arg_df[i].Titulo = t_portaria

(***************************************************************************)
(* Claims about dou_rankear                                                *)
(***************************************************************************)
\* the input row a ranked row comes from
SourceRow(r) == CHOOSE x \in {arg_df[i] : i \in 1..Len(arg_df)} : x.ix = r.ix

IsPermutation ==
    /\ Len(ret) = Len(arg_df)
    /\ {ret[i].ix : i \in 1..Len(ret)} = {arg_df[i].ix : i \in 1..Len(arg_df)}
    /\ \A i \in 1..Len(ret) :
          LET s == SourceRow(ret[i])
          IN  /\ ret[i].Titulo = s.Titulo /\ ret[i].Ementa = s.Ementa
              /\ ret[i].Orgao = s.Orgao /\ ret[i].Data = s.Data /\ ret[i].Link = s.Link

\* C6: dou_rankear returns a permutation of its input ordered by score
\* descending, and rows of identical score and date keep their input order.
Thm_C6 ==
    op = "dou_rankear" =>
        /\ IsPermutation
        /\ \A i, j \in 1..Len(ret) : i < j => ret[i].Score >= ret[j].Score
        /\ \A i, j \in 1..Len(ret) :
              (i < j /\ ret[i].Score = ret[j].Score /\ ret[i].Data = ret[j].Data)
                  => ret[i].ix < ret[j].ix

\* three rows of two scores, the lower score first in the input, and an exact
\* tie of score and date between two different rows
Wit_C6 ==
    /\ op = "dou_rankear"
    /\ Len(ret) = 3
    /\ arg_df[1].Titulo = t_portaria
    /\ ret[1].ix = 1 /\ ret[2].ix = 2 /\ ret[3].ix = 0
    /\ ret[1].Score = ret[2].Score /\ ret[1].Data = ret[2].Data
    /\ ret[1].Titulo # ret[2].Titulo

\* dd/mm/YYYY rearranged as YYYYmmdd, whose lexicographic order is the calendar's
Calendar(d) == SubSeq(d, 7, 10) \o SubSeq(d, 4, 5) \o SubSeq(d, 1, 2)

Parsed == op \in {"_dou_parse_payload", "notif._dou_parse_payload"}

\* the payload is {"jsonArray": [raw]} with raw a mapping, and raw gave a record
SingleRaw ==
    /\ Len(arg_payload.d) = 1
    /\ arg_payload.d[1][1] = "jsonArray"
    /\ arg_payload.d[1][2].t = "list"
    /\ Len(arg_payload.d[1][2].l) = 1
    /\ arg_payload.d[1][2].l[1].t = "dict"
    /\ Len(ret) = 1

TheRaw == arg_payload.d[1][2].l[1]

HasKey(raw, key) == \E i \in 1..Len(raw.d) : raw.d[i][1] = key

MinOf(S) == CHOOSE x \in S : \A y \in S : x <= y

\* the value under the first key of the chain present in raw; None if none is
FirstPresent(raw, chain) ==
    LET I == {i \in 1..Len(chain) : HasKey(raw, chain[i])}
    IN  IF I = {} THEN JNull ELSE get(raw.d, chain[MinOf(I)])

\* the value under the first key of the chain whose value is truthy; if none
\* is, the value under the last key of the chain (None when absent)
FirstTruthy(raw, chain) ==
    LET I == {i \in 1..Len(chain) : truthy(get(raw.d, chain[i]))}
    IN  IF I = {} THEN get(raw.d, chain[Len(chain)]) ELSE get(raw.d, chain[MinOf(I)])

AnyTruthy(raw, chain) == \E i \in 1..Len(chain) : truthy(get(raw.d, chain[i]))

\* C9 as stated: each field is the value of the first alias key present in the
\* element, a later alias being consulted only when every earlier one is absent.
CE_C9 ==
    (Parsed /\ SingleRaw) =>
        /\ ret[1].Titulo = normalize_text(FirstPresent(TheRaw, titulo_chain))
        /\ ret[1].Ementa = normalize_text(FirstPresent(TheRaw, ementa_chain))
        /\ ret[1].Orgao = normalize_text(FirstPresent(TheRaw, orgao_chain))
        /\ (\E i \in 1..Len(link_chain) : HasKey(TheRaw, link_chain[i]))
              => (ret[1].Link = FirstPresent(TheRaw, link_chain) \/ AnyTruthy(TheRaw, id_chain))

\* C9 amended: each field is the value of the first alias whose value is
\* truthy; an alias that is absent, null, empty or zero is passed over, and
\* when no alias is truthy a text field is the normalised value of the last
\* alias of its chain.
Thm_C9 ==
    (Parsed /\ SingleRaw) =>
        /\ ret[1].Titulo = normalize_text(FirstTruthy(TheRaw, titulo_chain))
        /\ ret[1].Ementa = normalize_text(FirstTruthy(TheRaw, ementa_chain))
        /\ ret[1].Orgao = normalize_text(FirstTruthy(TheRaw, orgao_chain))
        /\ AnyTruthy(TheRaw, link_chain) => ret[1].Link = FirstTruthy(TheRaw, link_chain)

\* "title" is present and empty, "titulo" holds text: the record's title is
\* the normalised text of "titulo"
Wit_C9 ==
    /\ Parsed /\ SingleRaw
    /\ HasKey(TheRaw, "title") /\ ~truthy(get(TheRaw.d, "title"))
    /\ get(TheRaw.d, "titulo").t = "str" /\ truthy(get(TheRaw.d, "titulo"))
    /\ ret[1].Titulo = <<"2", " ", "x">>

(***************************************************************************)
(* Claims about the collector and its cache                                *)
(***************************************************************************)
IsGet(e) == e.ev = "get"

\* the requests of the current collector run, in the order issued
Requests == SelectSeq(log, IsGet)

\* the JSON document in the body of a response, None when the body is not JSON
BodyDocument(resp) ==
    IF resp.json.ok THEN resp.json.doc
    ELSE IF resp.loads.ok THEN resp.loads.doc
    ELSE JNull

\* the section answered 200 with a non-empty JSON object
AnsweredObject(resp) ==
    /\ resp.exc = "none"
    /\ resp.status = 200
    /\ BodyDocument(resp).t = "dict"
    /\ BodyDocument(resp).d # <<>>

\* the records parsed from the sections that answered with an object, in
\* section order
RECURSIVE RecordsOf(_)
RecordsOf(reqs) ==
    IF reqs = <<>> THEN <<>>
    ELSE (IF AnsweredObject(Head(reqs).resp)
          THEN IF prog = "app"
               THEN dou_parse_payload(BodyDocument(Head(reqs).resp),
                                      strftime_iso(data_ref), Head(reqs).secao)
               ELSE notif_dou_parse_payload(BodyDocument(Head(reqs).resp),
                                            strftime_iso(data_ref), Head(reqs).secao)
          ELSE <<>>)
         \o RecordsOf(Tail(reqs))

\* C1: whatever each section answers, the collector never raises, requests
\* every section of the sequence, and returns exactly the records parsed from
\* the sections that answered 200 with a non-empty JSON object, in section
\* order.
Thm_C1 ==
    /\ pc # "crashed"
    /\ err \in {"none", "SystemExit"}
    /\ pc = "collected" =>
          /\ [i \in 1..Len(Requests) |-> Requests[i].secao] = secoes
          /\ df_dou = IF prog = "app" THEN coletar_frame(RecordsOf(Requests))
                      ELSE collect_frame(RecordsOf(Requests))

\* the first section's body looks like an object and fails the second parse,
\* the next section still answers and its records are returned
Wit_C1 ==
    /\ pc = "collected"
    /\ Len(Requests) = 2
    /\ Requests[1].resp = R_bad_object
    /\ Requests[2].resp = R_ok_B
    /\ Len(df_dou) = 2

\* C3: every record dou_coletar returns has a non-empty title, summary or link
\* after whitespace normalisation.
CE_C3 ==
    (prog = "app" /\ pc = "collected") =>
        \A i \in 1..Len(df_dou) :
            \/ normalize_str(df_dou[i].Titulo) # <<>>
            \/ normalize_str(df_dou[i].Ementa) # <<>>
            \/ normalize_str(df_dou[i].Link) # <<>>

\* C10: a run of the pipeline with an empty section list ends with an error
\* signalled to the caller.
CE_C10 ==
    (idx >= 1 /\ secoes = <<>> /\ pc \in {"shown", "exited"}) => err # "none"

\* C2: a call whose key has an entry younger than 1800 seconds returns the
\* stored collection and issues no request; any other call runs the fetch
\* pipeline once and overwrites the entry with its result.
Thm_C2 ==
    /\ [][(pc = "idle" /\ pc' # "idle") =>
            LET e == cache[<<data_ref', secoes'>>]
            IN  IF e.present /\ clock - e.at < 1800
                THEN /\ pc' = "collected"
                     /\ df_dou' = e.value
                     /\ log' = <<>>
                     /\ cache' = cache
                ELSE /\ pc' = "fetch"
                     /\ idx' = 1 /\ all_items' = <<>> /\ log' = <<>>]_vars
    /\ [][(pc = "fetch" /\ pc' = "collected") =>
            /\ [i \in 1..Len(Requests) |-> Requests[i].secao] = secoes
            /\ cache' = [cache EXCEPT ![<<data_ref, secoes>>] =
                            [present |-> TRUE, at |-> clock, value |-> df_dou']]]_vars
    /\ []((served = "hit" /\ pc \in {"collected", "shown"}) => log = <<>>)

\* a call served from an entry one second short of the time-to-live, after
\* which the stored records are in hand and nothing was requested
Wit_C2 ==
    /\ pc = "collected"
    /\ served = "hit"
    /\ clock - cache[<<data_ref, secoes>>].at = ttl - 1
    /\ df_dou = cache[<<data_ref, secoes>>].value
    /\ df_dou # <<>>
    /\ log = <<>>


(***************************************************************************)
(* Claims about the pacing of the collector's requests                     *)
(***************************************************************************)
\* the sections requested so far are the first sections of the list, once each
OneRequestPerSection ==
    /\ Len(Requests) <= Len(secoes)
    /\ \A i \in 1..Len(Requests) : Requests[i].secao = secoes[i]

\* the delay separates every two consecutive requests
SleepBetweenRequests ==
    \A i \in 1..(Len(log) - 1) : ~(log[i].ev = "get" /\ log[i + 1].ev = "get")

\* C11: one request per section, in order and without retry, and the 0.2 s
\* delay between every two consecutive requests whatever the earlier one
\* answered.
CE_C11 == OneRequestPerSection /\ SleepBetweenRequests

(***************************************************************************)
(* Claims about the candidate lists of _dou_parse_payload                  *)
(***************************************************************************)
\* the concatenation of a sequence of sequences
RECURSIVE Flatten(_)
Flatten(ss) == IF ss = <<>> THEN <<>> ELSE Head(ss) \o Flatten(Tail(ss))

\* the known keys that hold a list at the top level of payload p, in the
\* order of the key table
KnownHolding(p) ==
    LET Holds(key) == \E i \in 1..Len(p.d) : p.d[i][1] = key /\ p.d[i][2].t = "list"
    IN  SelectSeq(known_keys, Holds)

\* the elements of the lists under the known keys
TopElements(p) ==
    Flatten([i \in 1..Len(KnownHolding(p)) |-> get(p.d, KnownHolding(p)[i]).l])

\* the elements of the lists one level inside the top-level mappings of p
NestedElements(p) ==
    LET IsList(pair) == pair[2].t = "list"
        Inside(v) == IF v.t = "dict"
                     THEN Flatten([j \in 1..Len(SelectSeq(v.d, IsList)) |->
                                        SelectSeq(v.d, IsList)[j][2].l])
                     ELSE <<>>
    IN  Flatten([i \in 1..Len(p.d) |-> Inside(p.d[i][2])])

\* the records the elements es give: one per mapping, the empty ones dropped
RecordsFrom(es) ==
    LET IsDict(e) == e.t = "dict"
        raws == SelectSeq(es, IsDict)
    IN  SelectSeq([i \in 1..Len(raws) |-> item_of(raws[i], s_data_iso, s_do1)], item_kept)

\* C12: the records come from the lists one level inside the top-level mappings
\* exactly when no known key holds a list at the top level; when a known key
\* holds a list the records come from the lists under the known keys only.
Thm_C12 ==
    Parsed =>
        ret = RecordsFrom(IF KnownHolding(arg_payload) = <<>>
                          THEN NestedElements(arg_payload)
                          ELSE TopElements(arg_payload))

\* no known key holds a list at the top level, and a list one level inside a
\* top-level mapping gave the records
Wit_C12 ==
    /\ Parsed
    /\ KnownHolding(arg_payload) = <<>>
    /\ NestedElements(arg_payload) # <<>>
    /\ Len(ret) >= 1

(***************************************************************************)
(* Claims about the link of a record                                       *)
(***************************************************************************)
\* a value that is there: neither absent, nor null, nor the empty string
NonEmpty(v) == v.t # "null" /\ ~(v.t = "str" /\ v.s = <<>>)

HasNonEmpty(raw, chain) == \E i \in 1..Len(chain) : NonEmpty(get(raw.d, chain[i]))

\* the value under the first key of the chain that holds a non-empty value
FirstNonEmpty(raw, chain) ==
    get(raw.d, chain[MinOf({i \in 1..Len(chain) : NonEmpty(get(raw.d, chain[i]))})])

\* C13 as stated: an element that has a direct link keeps it; one that has no
\* direct link and has an identifier gets the fixed prefix followed by the
\* identifier; one that has neither gets the empty string.
CE_C13 ==
    (Parsed /\ SingleRaw) =>
        IF HasNonEmpty(TheRaw, link_chain)
        THEN ret[1].Link = FirstNonEmpty(TheRaw, link_chain)
        ELSE IF HasNonEmpty(TheRaw, id_chain)
        THEN ret[1].Link = JStr(link_prefix \o py_str(FirstNonEmpty(TheRaw, id_chain)))
        ELSE ret[1].Link = JStr(<<>>)

\* C13 amended: the link is the first direct link that is truthy; with none,
\* it is the fixed prefix followed by the first identifier that is truthy (an
\* identifier of zero is passed over like an absent one); with neither, it is
\* the empty string.
Thm_C13 ==
    (Parsed /\ SingleRaw) =>
        IF AnyTruthy(TheRaw, link_chain)
        THEN ret[1].Link = FirstTruthy(TheRaw, link_chain)
        ELSE IF AnyTruthy(TheRaw, id_chain)
        THEN ret[1].Link = JStr(link_prefix \o py_str(FirstTruthy(TheRaw, id_chain)))
        ELSE ret[1].Link = JStr(<<>>)

\* no direct link, "id" is zero and "identificador" holds a number: the link
\* is synthesized from "identificador"
Wit_C13 ==
    /\ Parsed /\ SingleRaw
    /\ ~AnyTruthy(TheRaw, link_chain)
    /\ get(TheRaw.d, "id") = JNum(0)
    /\ truthy(get(TheRaw.d, "identificador"))
    /\ ret[1].Link = JStr(link_prefix \o py_str(get(TheRaw.d, "identificador")))

(***************************************************************************)
(* Claims about the cache and the sections that failed                     *)
(***************************************************************************)
\* a section of the current run did not answer 200 with a non-empty object
SomeSectionFailed == \E i \in 1..Len(Requests) : ~AnsweredObject(Requests[i].resp)

\* the entry of key k was stored by a run in which a section failed: it holds
\* no record of one of the sections of its key
FromFailedRun(k) ==
    /\ cache[k].present
    /\ \E i \in 1..Len(k[2]) :
          \A j \in 1..Len(cache[k].value) : cache[k].value[j].Secao # upper(k[2][i])

\* C14: the collection of a run in which sections failed is stored like any
\* other; a later call with the same key within the time-to-live returns it
\* without any request; the sections are fetched again only once the entry is
\* at least as old as the time-to-live.
Thm_C14 ==
    /\ [][(pc = "fetch" /\ pc' = "collected" /\ SomeSectionFailed) =>
            /\ df_dou' = coletar_frame(RecordsOf(Requests))
            /\ cache'[<<data_ref, secoes>>] =
                   [present |-> TRUE, at |-> clock, value |-> df_dou']
            /\ FromFailedRun(<<data_ref, secoes>>)']_vars
    /\ [][(pc = "idle" /\ pc' # "idle" /\ FromFailedRun(<<data_ref', secoes'>>)) =>
            LET e == cache[<<data_ref', secoes'>>]
            IN  IF clock - e.at < 1800
                THEN /\ pc' = "collected"
                     /\ served' = "hit"
                     /\ df_dou' = e.value
                     /\ log' = <<>>
                     /\ cache' = cache
                ELSE /\ pc' = "fetch"
                     /\ served' = "miss"
                     /\ idx' = 1]_vars

\* the empty collection of a run whose sections all failed, served from the
\* cache one second short of the time-to-live with nothing requested
Wit_C14 ==
    /\ pc = "collected"
    /\ served = "hit"
    /\ FromFailedRun(<<data_ref, secoes>>)
    /\ clock - cache[<<data_ref, secoes>>].at = ttl - 1
    /\ df_dou = <<>>
    /\ log = <<>>
====
